---- MODULE Spec2Model ----
(***************************************************************************)
(* Model of the PDF pattern matcher (main.py and the modules under src/):  *)
(* term loading, the per-page pattern matcher, the result aggregator and   *)
(* the main run loop with its exit statuses.                               *)
(*                                                                         *)
(* Strings are sequences of one-character strings; offsets into a text are *)
(* 0-based as in Python.  A JSON value is a record [t, v]: t is its type   *)
(* ("str", "num", "list") and v the characters of a string.                *)
(***************************************************************************)
EXTENDS Integers, Sequences, FiniteSets, TLC

VARIABLES
    pc,                \* position of the running specification
    m_text,            \* matcher call: the page text
    m_terms,           \* matcher call: the TermSet (ordered list of entries)
    m_before,          \* matcher call: context_before
    m_after,           \* matcher call: context_after
    m_out,             \* matcher call: its outcome (returned list or raised)
    aggregator,        \* the ResultAggregator object
    calls,             \* history: the arguments of every add_results call
    results_file,      \* the results document on disk (NoFile when absent)
    saved_calls,       \* history: the number of add_results calls made before
                       \* the results document was last written
    summary_file,      \* the summary document on disk (NoFile when absent)
    args,              \* main: the parsed command line
    source,            \* main: the term source file
    directory,         \* main: the entries below the scan folder
    term_list,         \* main: the loaded TermSet
    files_to_process,  \* main: the list returned by scan_directory
    idx,               \* main: index of the file of the current iteration
    pending,           \* main: the matches returned by process_pdf_file
    opened,            \* history: the files opened so far, in order, each with
                       \* its page count and what its processing raised
    failed,            \* the indexes journaled by the per-file handler
    loaded,            \* history: load_term_list has returned
    scanned,           \* history: scan_directory has been called
    interrupted,       \* history: number of files opened when the interrupt came
    exit_code,         \* process exit status (NotExited while running)
    view               \* the value the last read of the aggregator returned

vars == << pc, m_text, m_terms, m_before, m_after, m_out, aggregator, calls,
           saved_calls, results_file, summary_file, args, source, directory, term_list,
           files_to_process, idx, pending, opened, failed, loaded, scanned,
           interrupted, exit_code, view >>

(***************************************************************************)
(* Bounds of the model                                                     *)
(***************************************************************************)
MaxTextLen == 2
MaxContext == 2
MaxCalls == 2
MaxMatches == 2
MaxPages == 2
MaxEntries == 3

NotExited == 0 - 1
NoFile == [written |-> FALSE]

Max(x, y) == IF x >= y THEN x ELSE y
Min(x, y) == IF x <= y THEN x ELSE y

RECURSIVE SumSeq(_)
SumSeq(s) == IF s = << >> THEN 0 ELSE Head(s) + SumSeq(Tail(s))

RECURSIVE Concat(_)
Concat(ss) == IF ss = << >> THEN << >> ELSE Head(ss) \o Concat(Tail(ss))

SeqsUpTo(S, n) == UNION { [1..k -> S] : k \in 0..n }

(***************************************************************************)
(* Python strings and slices                                               *)
(***************************************************************************)
Str(s) == [t |-> "str", v |-> s]
Num == [t |-> "num", v |-> << >>]
JList == [t |-> "list", v |-> << >>]

\* str.lower() on one character
Lower(c) == CASE c = "A" -> "a"
              [] c = "B" -> "b"
              [] c = "P" -> "p"
              [] OTHER -> c

\* normalisation of one slice index against a length n (negative indexes
\* count from the end, everything is clamped into 0..n)
SliceIndex(k, n) == IF k < 0 THEN Max(k + n, 0) ELSE Min(k, n)

\* text[i:j]
PySlice(text, i, j) ==
    LET lo == SliceIndex(i, Len(text))
        hi == SliceIndex(j, Len(text))
    IN IF lo >= hi THEN << >> ELSE SubSeq(text, lo + 1, hi)

(***************************************************************************)
(* re.compile and finditer, for the pattern syntax of the model: literal   *)
(* characters, a trailing "+" on a literal (greedy, one or more), "(" and  *)
(* ")" (only unbalanced ones occur), and the token "{HUGE}" standing for a *)
(* repetition count such as {99999999999999999999}.                        *)
(***************************************************************************)
CompileError(e) == [err |-> e, atoms |-> << >>]

RECURSIVE sre_parse(_, _, _)
sre_parse(p, i, atoms) ==
    IF i > Len(p) THEN [err |-> "none", atoms |-> atoms]
    ELSE LET c == p[i] IN
         CASE c \in {"(", ")"} -> CompileError("re.error")
           [] c = "+" ->
                IF atoms = << >> \/ atoms[Len(atoms)].plus
                THEN CompileError("re.error")
                ELSE sre_parse(p, i + 1,
                               [atoms EXCEPT ![Len(atoms)].plus = TRUE])
           [] c = "{HUGE}" /\ atoms # << >> -> CompileError("OverflowError")
           [] OTHER ->
                sre_parse(p, i + 1,
                          Append(atoms, [c |-> Lower(c), plus |-> FALSE]))

\* re.compile(pattern, re.IGNORECASE | re.MULTILINE)
re_compile(pattern) ==
    IF pattern.t # "str" THEN CompileError("TypeError")
    ELSE sre_parse(pattern.v, 1, << >>)

\* number of consecutive characters of text from offset i that equal c,
\* ignoring case
RECURSIVE RunLen(_, _, _)
RunLen(text, i, c) ==
    IF i < Len(text) /\ Lower(text[i + 1]) = c
    THEN 1 + RunLen(text, i + 1, c)
    ELSE 0

\* end offset of the match of atoms[k..] anchored at offset i, or -1
RECURSIVE match_at(_, _, _, _)
RECURSIVE try_greedy(_, _, _, _, _)
match_at(atoms, k, text, i) ==
    IF k > Len(atoms) THEN i
    ELSE LET run == RunLen(text, i, atoms[k].c) IN
         IF atoms[k].plus THEN try_greedy(atoms, k, text, i, run)
         ELSE IF run >= 1 THEN match_at(atoms, k + 1, text, i + 1)
         ELSE -1

try_greedy(atoms, k, text, i, n) ==
    IF n < 1 THEN -1
    ELSE LET r == match_at(atoms, k + 1, text, i + n) IN
         IF r # -1 THEN r ELSE try_greedy(atoms, k, text, i, n - 1)

\* regex.finditer(text): the non-overlapping matches from offset pos on,
\* leftmost first; after an empty match the scan advances by one character
RECURSIVE finditer(_, _, _)
finditer(atoms, text, pos) ==
    LET starts == { s \in pos..Len(text) : match_at(atoms, 1, text, s) # -1 }
    IN IF starts = {} THEN << >>
       ELSE LET s == CHOOSE x \in starts : \A y \in starts : x <= y
                e == match_at(atoms, 1, text, s)
            IN << [start |-> s, end |-> e] >>
               \o finditer(atoms, text, IF e = s THEN e + 1 ELSE e)

(***************************************************************************)
(* pdf_processor.py                                                        *)
(***************************************************************************)
\* variant: the start of the window is not clamped at the start of the text
context_start_unclamped(start_pos, context_before) == start_pos - context_before

context_start(start_pos, context_before) == Max(0, start_pos - context_before)

context_end(text, end_pos, context_after) == Min(Len(text), end_pos + context_after)

\* the PDFMatch built for one regex match
PDFMatch(text, term_name, page_number, match, context_before, context_after) ==
    [ term_name      |-> term_name,
      matched_text   |-> PySlice(text, match.start, match.end),
      page_number    |-> page_number,
      context_before |-> PySlice(text, context_start(match.start, context_before),
                                 match.start),
      context_after  |-> PySlice(text, match.end,
                                 context_end(text, match.end, context_after)),
      position       |-> match.start ]

\* variant: only the first match of the term is taken (search for finditer)
TermMatches_first(text, term_name, atoms, page_number, context_before, context_after) ==
    LET found == finditer(atoms, text, 0) IN
    [ n \in 1..Min(1, Len(found)) |->
        PDFMatch(text, term_name, page_number, found[n],
                 context_before, context_after) ]

\* the matches one term appends, in scan order
TermMatches(text, term_name, atoms, page_number, context_before, context_after) ==
    LET found == finditer(atoms, text, 0) IN
    [ n \in 1..Len(found) |->
        PDFMatch(text, term_name, page_number, found[n],
                 context_before, context_after) ]

\* which compile failures the loop's except clause catches
CaughtByMatcher(err) == err = "re.error"

\* variant: the matches of a term are put in front of the earlier terms'
RECURSIVE search_loop_prepend(_, _, _, _, _, _, _)
search_loop_prepend(text, term_dict, k, matches, page_number, context_before, context_after) ==
    IF k > Len(term_dict) THEN [raised |-> "none", matches |-> matches]
    ELSE LET regex == re_compile(term_dict[k].pattern) IN
         IF regex.err = "none"
         THEN search_loop_prepend(text, term_dict, k + 1,
                          TermMatches(text, term_dict[k].name, regex.atoms,
                                      page_number, context_before, context_after)
                          \o matches,
                          page_number, context_before, context_after)
         ELSE IF regex.err = "re.error"
         THEN search_loop_prepend(text, term_dict, k + 1, matches,
                          page_number, context_before, context_after)
         ELSE [raised |-> regex.err, matches |-> << >>]

\* the loop over term_dict.items(), from entry k on, with the matches so far
RECURSIVE search_loop(_, _, _, _, _, _, _)
search_loop(text, term_dict, k, matches, page_number, context_before, context_after) ==
    IF k > Len(term_dict) THEN [raised |-> "none", matches |-> matches]
    ELSE LET regex == re_compile(term_dict[k].pattern) IN
         IF regex.err = "none"
         THEN search_loop(text, term_dict, k + 1,
                          matches \o TermMatches(text, term_dict[k].name, regex.atoms,
                                                 page_number, context_before,
                                                 context_after),
                          page_number, context_before, context_after)
         ELSE IF CaughtByMatcher(regex.err)
         THEN search_loop(text, term_dict, k + 1, matches,
                          page_number, context_before, context_after)
         ELSE [raised |-> regex.err, matches |-> << >>]

search_text_for_patterns(text, term_dict, page_number, context_before, context_after) ==
    search_loop(text, term_dict, 1, << >>, page_number, context_before, context_after)

\* extract_text_from_pdf: the pages of a readable document, in page order;
\* any failure of the extraction library is re-raised as Exception
extract_text_from_pdf(content) ==
    IF content.readable
    THEN [raised |-> "none", page_texts |-> content.pages]
    ELSE [raised |-> "Exception", page_texts |-> << >>]

\* the loop over page_texts.items(), from page page_num on
RECURSIVE process_pages(_, _, _, _, _, _)
process_pages(page_texts, page_num, all_matches, term_dict, context_before, context_after) ==
    IF page_num > Len(page_texts)
    THEN [raised |-> "none", matches |-> all_matches]
    ELSE LET page_matches ==
                 search_text_for_patterns(page_texts[page_num], term_dict, page_num,
                                          context_before, context_after)
         IN IF page_matches.raised # "none"
            THEN [raised |-> page_matches.raised, matches |-> << >>]
            ELSE process_pages(page_texts, page_num + 1,
                               all_matches \o page_matches.matches,
                               term_dict, context_before, context_after)

process_pdf_file(content, term_dict, context_before, context_after) ==
    LET extracted == extract_text_from_pdf(content) IN
    IF extracted.raised # "none"
    THEN [raised |-> extracted.raised, matches |-> << >>]
    ELSE process_pages(extracted.page_texts, 1, << >>, term_dict,
                       context_before, context_after)

(***************************************************************************)
(* Paths: a path is the sequence of its parts, each part a string          *)
(***************************************************************************)
PathName(path) == path[Len(path)]

\* str(path): the parts joined by "/"
RECURSIVE PathStr(_)
PathStr(path) ==
    IF Len(path) = 0 THEN << >>
    ELSE IF Len(path) = 1 THEN path[1]
    ELSE path[1] \o << "/" >> \o PathStr(Tail(path))

(***************************************************************************)
(* result_aggregator.py                                                    *)
(***************************************************************************)
ResultAggregator(context_before, context_after) ==
    [ context_before |-> context_before,
      context_after  |-> context_after,
      results        |-> << >>,
      match_counts   |-> << >>,
      file_count     |-> 0,
      total_pages    |-> 0 ]

\* self.match_counts[key] += 1 on a defaultdict(int); the dict is kept as
\* the list of its [key, count] items in insertion order
Increment(match_counts, key) ==
    IF \E n \in 1..Len(match_counts) : match_counts[n].key = key
    THEN [ n \in 1..Len(match_counts) |->
             IF match_counts[n].key = key
             THEN [match_counts[n] EXCEPT !.count = @ + 1]
             ELSE match_counts[n] ]
    ELSE Append(match_counts, [key |-> key, count |-> 1])

\* the result dictionary built for one match
ResultOf(file_path, match) ==
    [ file_name      |-> PathName(file_path),
      file_path      |-> PathStr(file_path),
      page_number    |-> match.page_number,
      term_name      |-> match.term_name,
      matched_text   |-> match.matched_text,
      context_before |-> match.context_before,
      context_after  |-> match.context_after,
      position       |-> match.position ]

\* variant: the counter grows by the number of matches
CountFile_PerMatch(file_count, matches) == file_count + Len(matches)

\* the new value of file_count
CountFile(file_count, matches) ==
    IF matches # << >> THEN file_count + 1 ELSE file_count

\* the new value of total_pages
CountPages(total_pages, page_count) ==
    IF page_count > 0 THEN total_pages + page_count ELSE total_pages

\* variant: a result equal to one already listed is dropped
RECURSIVE append_matches_dedup(_, _, _, _)
append_matches_dedup(self, file_path, matches, n) ==
    IF n > Len(matches) THEN self
    ELSE LET result == ResultOf(file_path, matches[n]) IN
         IF \E i \in 1..Len(self.results) : self.results[i] = result
         THEN append_matches_dedup(self, file_path, matches, n + 1)
         ELSE append_matches_dedup(
                  [self EXCEPT !.results = Append(@, result),
                               !.match_counts = Increment(@, matches[n].term_name)],
                  file_path, matches, n + 1)

\* the loop "for match in matches", from match n on
RECURSIVE append_matches(_, _, _, _)
append_matches(self, file_path, matches, n) ==
    IF n > Len(matches) THEN self
    ELSE append_matches(
             [self EXCEPT !.results = Append(@, ResultOf(file_path, matches[n])),
                          !.match_counts = Increment(@, matches[n].term_name)],
             file_path, matches, n + 1)

add_results(self, file_path, matches, page_count) ==
    append_matches(
        [self EXCEPT !.file_count = CountFile(@, matches),
                     !.total_pages = CountPages(@, page_count)],
        file_path, matches, 1)

get_total_matches(self) == Len(self.results)

\* variant: the aggregator's own dict is handed out
get_matches_by_term_shared(self) == [shared |-> TRUE, items |-> self.match_counts]

\* dict(self.match_counts): a new dict with the items of the counter dict.
\* shared tells whether the returned object is the aggregator's own
get_matches_by_term(self) == [shared |-> FALSE, items |-> self.match_counts]

\* by_key[key].append(result) on a defaultdict(list); the dict is kept as the
\* list of its [key, items] groups in insertion order
GroupAppend(groups, key, result) ==
    IF \E n \in 1..Len(groups) : groups[n].key = key
    THEN [ n \in 1..Len(groups) |->
             IF groups[n].key = key
             THEN [groups[n] EXCEPT !.items = Append(@, result)]
             ELSE groups[n] ]
    ELSE Append(groups, [key |-> key, items |-> << result >>])

\* the loop "for result in self.results", from result n on
RECURSIVE group_loop(_, _, _, _)
group_loop(results, field, n, groups) ==
    IF n > Len(results) THEN groups
    ELSE group_loop(results, field, n + 1,
                    GroupAppend(groups, results[n][field], results[n]))

\* variant: the records are moved out of the listing into the groups
get_results_by_file_destructive(self) ==
    [ self  |-> [self EXCEPT !.results = << >>],
      value |-> group_loop(self.results, "file_name", 1, << >>) ]

\* the aggregator after the call and the dict returned
get_results_by_file(self) ==
    [ self  |-> self,
      value |-> group_loop(self.results, "file_name", 1, << >>) ]

get_results_by_term(self) ==
    [ self  |-> self,
      value |-> group_loop(self.results, "term_name", 1, << >>) ]

\* what the holder of a value returned earlier reads from it once the
\* aggregator is in state self: a dict that is the aggregator's own shows
\* the increments made since, a copy does not
Observe(v, self) ==
    IF v.kind = "counts" /\ v.shared
    THEN [v EXCEPT !.items = self.match_counts]
    ELSE v

\* the document save_results dumps (generated_at left out)
ResultsDocument(self) ==
    [ written  |-> TRUE,
      metadata |-> [ total_matches      |-> get_total_matches(self),
                     files_with_matches |-> self.file_count,
                     context_before     |-> self.context_before,
                     context_after      |-> self.context_after ],
      matches  |-> self.results ]

\* the document save_summary dumps (times left out)
SummaryDocument(self, files_scanned, terms) ==
    [ written |-> TRUE,
      job_summary |-> [ files_scanned      |-> files_scanned,
                        pages_processed    |-> self.total_pages,
                        files_with_matches |-> self.file_count,
                        total_matches      |-> get_total_matches(self) ],
      search_parameters |-> [ term_count     |-> Len(terms),
                              terms          |-> [ n \in 1..Len(terms) |-> terms[n].name ],
                              context_before |-> self.context_before,
                              context_after  |-> self.context_after ],
      match_counts_by_term |-> get_matches_by_term(self).items ]

(***************************************************************************)
(* term_loader.py.  A parsed JSON document is [kind, items]: kind "dict"   *)
(* with items the list of its [key, value] members in document order, kind *)
(* "list" with items the list of its elements, or kind "scalar".  A TermSet *)
(* (a Python dict) is the list of its [name, pattern] entries in insertion *)
(* order.                                                                  *)
(***************************************************************************)
K_name == << "n", "a", "m", "e" >>
K_pattern == << "p", "a", "t", "t", "e", "r", "n" >>
K_term == << "t", "e", "r", "m" >>
K_regex == << "r", "e", "g", "e", "x" >>

\* key in item
HasKey(item, key) == \E n \in 1..Len(item.items) : item.items[n].key = key

\* item[key]
GetKey(item, key) ==
    item.items[CHOOSE n \in 1..Len(item.items) : item.items[n].key = key].value

\* term_dict[name] = pattern: an existing name keeps its place and takes the
\* new pattern, a new name is appended
DictSet(term_dict, name, pattern) ==
    IF \E n \in 1..Len(term_dict) : term_dict[n].name = name
    THEN [ n \in 1..Len(term_dict) |->
             IF term_dict[n].name = name
             THEN [term_dict[n] EXCEPT !.pattern = pattern]
             ELSE term_dict[n] ]
    ELSE Append(term_dict, [name |-> name, pattern |-> pattern])

\* variant: the fields term/regex are preferred to name/pattern
RecordTerm_termFirst(item) ==
    IF item.kind # "dict" THEN [found |-> FALSE]
    ELSE IF HasKey(item, K_term) /\ HasKey(item, K_regex)
    THEN [found |-> TRUE, name |-> GetKey(item, K_term),
          pattern |-> GetKey(item, K_regex)]
    ELSE IF HasKey(item, K_name) /\ HasKey(item, K_pattern)
    THEN [found |-> TRUE, name |-> GetKey(item, K_name),
          pattern |-> GetKey(item, K_pattern)]
    ELSE IF Len(item.items) >= 2
    THEN [found |-> TRUE, name |-> item.items[1].value,
          pattern |-> item.items[2].value]
    ELSE [found |-> FALSE]

\* the entry one element of a JSON array contributes: [found, name, pattern]
RecordTerm(item) ==
    IF item.kind # "dict" THEN [found |-> FALSE]
    ELSE IF HasKey(item, K_name) /\ HasKey(item, K_pattern)
    THEN [found |-> TRUE, name |-> GetKey(item, K_name),
          pattern |-> GetKey(item, K_pattern)]
    ELSE IF HasKey(item, K_term) /\ HasKey(item, K_regex)
    THEN [found |-> TRUE, name |-> GetKey(item, K_term),
          pattern |-> GetKey(item, K_regex)]
    ELSE IF Len(item.items) >= 2
    THEN [found |-> TRUE, name |-> item.items[1].value,
          pattern |-> item.items[2].value]
    ELSE [found |-> FALSE]

\* the loop "for item in data", from element n on
RECURSIVE load_json_array(_, _, _)
load_json_array(items, n, term_dict) ==
    IF n > Len(items) THEN [raised |-> "none", terms |-> term_dict]
    ELSE LET rec == RecordTerm(items[n]) IN
         IF ~rec.found THEN load_json_array(items, n + 1, term_dict)
         ELSE IF rec.name.t \in {"list", "dict"}
         THEN [raised |-> "TypeError", terms |-> << >>]
         ELSE load_json_array(items, n + 1,
                              DictSet(term_dict, rec.name, rec.pattern))

_load_json_terms(data) ==
    IF data.kind = "dict"
    THEN [raised |-> "none",
          terms |-> [ n \in 1..Len(data.items) |->
                        [name |-> Str(data.items[n].key),
                         pattern |-> data.items[n].value] ]]
    ELSE IF data.kind = "list"
    THEN load_json_array(data.items, 1, << >>)
    ELSE [raised |-> "ValueError", terms |-> << >>]

\* str.strip()
RECURSIVE LStrip(_)
LStrip(s) == IF s # << >> /\ Head(s) = " " THEN LStrip(Tail(s)) ELSE s

RECURSIVE RStrip(_)
RStrip(s) ==
    IF s # << >> /\ s[Len(s)] = " " THEN RStrip(SubSeq(s, 1, Len(s) - 1)) ELSE s

Strip(s) == RStrip(LStrip(s))

\* the loop over the rows of the csv reader, from row n on
RECURSIVE load_csv_rows(_, _, _)
load_csv_rows(rows, n, term_dict) ==
    IF n > Len(rows) THEN term_dict
    ELSE IF Len(rows[n]) < 2 THEN load_csv_rows(rows, n + 1, term_dict)
    ELSE LET term_name == Strip(rows[n][1])
             pattern == Strip(rows[n][2])
         IN IF term_name # << >> /\ pattern # << >>
            THEN load_csv_rows(rows, n + 1,
                               DictSet(term_dict, Str(term_name), Str(pattern)))
            ELSE load_csv_rows(rows, n + 1, term_dict)

\* has_header is the verdict of csv.Sniffer on the file
_load_csv_terms(rows, has_header) ==
    [raised |-> "none",
     terms |-> load_csv_rows(rows, IF has_header THEN 2 ELSE 1, << >>)]

LowerStr(s) == [ n \in 1..Len(s) |-> Lower(s[n]) ]

Suffix_json == << ".", "j", "s", "o", "n" >>
Suffix_csv == << ".", "c", "s", "v" >>

load_term_list(src) ==
    IF ~src.exists THEN [raised |-> "FileNotFoundError", terms |-> << >>]
    ELSE IF LowerStr(src.suffix) = Suffix_json THEN _load_json_terms(src.data)
    ELSE IF LowerStr(src.suffix) = Suffix_csv
    THEN _load_csv_terms(src.rows, src.has_header)
    ELSE [raised |-> "ValueError", terms |-> << >>]

(***************************************************************************)
(* file_scanner.py.  The directory is the set of the entries below the     *)
(* root, each [path, is_file] with path the parts from the root on.        *)
(***************************************************************************)
\* code point order of the characters of file names
CharCode(c) ==
    CASE c = "." -> 46 [] c = "/" -> 47
      [] c = "1" -> 49 [] c = "2" -> 50
      [] c = "D" -> 68 [] c = "F" -> 70 [] c = "P" -> 80
      [] c = "d" -> 100 [] c = "f" -> 102 [] c = "p" -> 112 [] c = "t" -> 116
      [] OTHER -> 120

RECURSIVE StrLess(_, _)
StrLess(a, b) ==
    IF b = << >> THEN FALSE
    ELSE IF a = << >> THEN TRUE
    ELSE IF Head(a) # Head(b) THEN CharCode(Head(a)) < CharCode(Head(b))
    ELSE StrLess(Tail(a), Tail(b))

\* Path.__lt__: the parts compared as lists of strings
RECURSIVE PathLess(_, _)
PathLess(a, b) ==
    IF b = << >> THEN FALSE
    ELSE IF a = << >> THEN TRUE
    ELSE IF Head(a) # Head(b) THEN StrLess(Head(a), Head(b))
    ELSE PathLess(Tail(a), Tail(b))

\* name.endswith(ext)
EndsWith(name, ext) ==
    Len(name) >= Len(ext)
    /\ SubSeq(name, Len(name) - Len(ext) + 1, Len(name)) = ext

RECURSIVE Insert(_, _)
Insert(sorted, path) ==
    IF sorted = << >> THEN << path >>
    ELSE IF PathLess(path, Head(sorted)) THEN << path >> \o sorted
    ELSE << Head(sorted) >> \o Insert(Tail(sorted), path)

\* list.sort()
RECURSIVE SortPaths(_)
SortPaths(s) == IF s = << >> THEN << >> ELSE Insert(SortPaths(Tail(s)), Head(s))

RECURSIVE SetToSeq(_)
SetToSeq(S) ==
    IF S = {} THEN << >>
    ELSE LET x == CHOOSE y \in S : TRUE IN << x >> \o SetToSeq(S \ {x})

\* root.glob("*" + ext), or root.glob("**/*" + ext) when recursive: the
\* entries (files and directories) whose name ends with ext
Glob(dir, ext, recursive) ==
    SetToSeq({ e \in dir : /\ EndsWith(PathName(e.path), ext)
                           /\ (recursive \/ Len(e.path) = 2) })

\* the loop "for ext in extensions", from extension n on
RECURSIVE glob_all(_, _, _, _)
glob_all(dir, extensions, recursive, n) ==
    IF n > Len(extensions) THEN << >>
    ELSE Glob(dir, LowerStr(extensions[n]), recursive)
         \o glob_all(dir, extensions, recursive, n + 1)

scan_directory(dir, extensions, recursive) ==
    LET matching_files == glob_all(dir, extensions, recursive, 1)
        files == SelectSeq(matching_files, LAMBDA e : e.is_file)
    IN SortPaths([ n \in 1..Len(files) |-> files[n].path ])

(***************************************************************************)
(* main.py: exceptions and exit statuses                                   *)
(***************************************************************************)
EXIT_SUCCESS == 0
EXIT_FAILURE == 1
EXIT_USAGE == 2
EXIT_INTERRUPTED == 130

\* issubclass(exc, Exception)
IsException(exc) == exc \notin {"KeyboardInterrupt", "SystemExit"}

\* variant: the loop body has no handler of its own
PerFileCatches_Nothing(exc) == FALSE

\* variant: a bare "except:" that also catches the interrupt
PerFileCatches_All(exc) == TRUE

\* the handler "except Exception" around one file of the loop
PerFileCatches(exc) == IsException(exc)

\* the exit status when exc leaves the outer try block; code is the
\* argument of sys.exit for a SystemExit
main_exit_status(exc, code) ==
    IF exc = "KeyboardInterrupt" THEN EXIT_INTERRUPTED
    ELSE IF IsException(exc) THEN EXIT_FAILURE
    ELSE code

\* variant: the emptiness check is missing
NoTermsLoaded_Never(terms) == FALSE

\* "if not term_list"
NoTermsLoaded(terms) == Len(terms) = 0

NoInterrupt == 0 - 1

(***************************************************************************)
(* Inputs of the three specifications                                      *)
(***************************************************************************)
TextChars == {"a", "A", "b"}
Texts == SeqsUpTo(TextChars, MaxTextLen)

T1 == Str(<< "T", "1" >>)
T2 == Str(<< "T", "2" >>)
TermNames == {T1, T2}

P_a == Str(<< "a" >>)
P_aplus == Str(<< "a", "+" >>)
P_empty == Str(<< >>)
P_unbalanced == Str(<< "(" >>)
P_huge == Str(<< "a", "{HUGE}" >>)
Patterns == {P_a, P_aplus, P_empty, P_unbalanced, P_huge, Num}

\* the TermSets over TermNames: entries with distinct names, in any order
TermDicts ==
    { d \in SeqsUpTo([name : TermNames, pattern : Patterns], Cardinality(TermNames)) :
        \A i, j \in 1..Len(d) : i # j => d[i].name # d[j].name }

Root == << "r" >>
F1 == << Root, << "f", "1", ".", "p" >> >>
F2 == << Root, << "d", ".", "p" >>, << "f", "2", ".", "p" >> >>
D1 == << Root, << "d", ".", "p" >> >>

\* the matches handed to add_results in the aggregator specification
MatchPool ==
    { [term_name |-> T1, matched_text |-> << "a" >>, page_number |-> 2,
       context_before |-> << "b" >>, context_after |-> << >>, position |-> 1],
      [term_name |-> T2, matched_text |-> << >>, page_number |-> 1,
       context_before |-> << >>, context_after |-> << "a" >>, position |-> 0] }
\* the files of the aggregator specification, each with the page count its
\* caller passes (F1: the default)
AggFiles == { [path |-> F1, page_count |-> 0], [path |-> F2, page_count |-> 2] }

RunTexts == { << "a", "b" >>, << "b" >> }
FileContents ==
    { [readable |-> FALSE, pages |-> << >>] }
    \cup { [readable |-> TRUE, pages |-> ps] : ps \in SeqsUpTo(RunTexts, MaxPages) }

Ext_p == << ".", "p" >>
Ext_P == << ".", "P" >>
RunExtensions == { << Ext_p >>, << Ext_p, Ext_P >> }
RunDirectory ==
    { [path |-> F1, is_file |-> TRUE],
      [path |-> D1, is_file |-> FALSE],
      [path |-> F2, is_file |-> TRUE] }

JsonSource(data) ==
    [exists |-> TRUE, suffix |-> Suffix_json, data |-> data,
     rows |-> << >>, has_header |-> FALSE]
RunSources ==
    { JsonSource([kind |-> "dict",
                  items |-> << [key |-> << "T", "1" >>, value |-> P_aplus],
                               [key |-> << "T", "2" >>, value |-> P_unbalanced] >>]),
      JsonSource([kind |-> "dict", items |-> << >>]),
      JsonSource([kind |-> "list",
                  items |-> << [kind |-> "dict",
                                items |-> << [key |-> K_name, value |-> T1],
                                             [key |-> K_pattern, value |-> P_a] >>],
                               [kind |-> "dict",
                                items |-> << [key |-> K_term, value |-> T2],
                                             [key |-> K_regex, value |-> P_huge] >>] >>]),
      [exists |-> TRUE, suffix |-> << ".", "t", "x", "t" >>,
       data |-> [kind |-> "scalar", items |-> << >>],
       rows |-> << >>, has_header |-> FALSE],
      [exists |-> TRUE, suffix |-> Suffix_csv,
       data |-> [kind |-> "scalar", items |-> << >>],
       rows |-> << << K_name, K_pattern >> >>, has_header |-> TRUE] }

RunArgs ==
    [ valid : BOOLEAN, summary_report : BOOLEAN, recursive : BOOLEAN,
      file_extensions : RunExtensions,
      context_before : {1}, context_after : {1} ]

NoArgs ==
    [ valid |-> FALSE, summary_report |-> FALSE, recursive |-> FALSE,
      file_extensions |-> << >>, context_before |-> 0, context_after |-> 0 ]
NoSource ==
    [exists |-> FALSE, suffix |-> << >>, data |-> [kind |-> "scalar", items |-> << >>],
     rows |-> << >>, has_header |-> FALSE]
NoOutcome == [raised |-> "none", matches |-> << >>]
NoView == [kind |-> "none"]

\* the entry the history keeps for one add_results call: its arguments, the
\* index of the file in the run and the number of pages of that file
Call(n, file_path, matches, page_count, doc_pages) ==
    [ idx |-> n, file_path |-> file_path, matches |-> matches,
      page_count |-> page_count, doc_pages |-> doc_pages ]

(***************************************************************************)
(* Specification SpecMatch: one matcher call on one page text, its output  *)
(* then added to a fresh aggregator, up to MaxCalls times                  *)
(***************************************************************************)
MatchVarsIdle ==
    /\ results_file = NoFile /\ summary_file = NoFile /\ saved_calls = 0
    /\ args = NoArgs /\ source = NoSource /\ directory = {}
    /\ term_list = << >> /\ files_to_process = << >> /\ idx = 0
    /\ pending = << >> /\ opened = << >> /\ failed = {}
    /\ loaded = FALSE /\ scanned = FALSE
    /\ interrupted = NoInterrupt /\ exit_code = NotExited
    /\ view = NoView

InitMatch ==
    /\ pc = "m_call"
    /\ m_text \in Texts
    /\ m_terms \in TermDicts
    /\ m_before \in 0..MaxContext
    /\ m_after \in 0..MaxContext
    /\ m_out = NoOutcome
    /\ aggregator = ResultAggregator(m_before, m_after)
    /\ calls = << >>
    /\ MatchVarsIdle

Search ==
    /\ pc = "m_call"
    /\ m_out' = search_text_for_patterns(m_text, m_terms, 1, m_before, m_after)
    /\ pc' = IF m_out'.raised = "none" THEN "m_returned" ELSE "m_raised"
    /\ UNCHANGED << m_text, m_terms, m_before, m_after, aggregator, calls,
                    results_file, saved_calls, summary_file, args, source, directory,
                    term_list, files_to_process, idx, pending, opened, failed,
                    loaded, scanned, interrupted, exit_code, view >>

Aggregate ==
    /\ pc = "m_returned"
    /\ Len(calls) < MaxCalls
    /\ aggregator' = add_results(aggregator, F1, m_out.matches, 0)
    /\ calls' = Append(calls, Call(Len(calls) + 1, F1, m_out.matches, 0, 1))
    /\ UNCHANGED << pc, m_text, m_terms, m_before, m_after, m_out,
                    results_file, saved_calls, summary_file, args, source, directory,
                    term_list, files_to_process, idx, pending, opened, failed,
                    loaded, scanned, interrupted, exit_code, view >>

NextMatch == Search \/ Aggregate

SpecMatch == InitMatch /\ [][NextMatch]_vars

(***************************************************************************)
(* Specification SpecAgg: any sequence of add_results and save_results     *)
(* calls on one aggregator                                                 *)
(***************************************************************************)
InitAgg ==
    /\ pc = "a_ready"
    /\ m_text = << >> /\ m_terms = << >> /\ m_before = 0 /\ m_after = 0
    /\ m_out = NoOutcome
    /\ aggregator = ResultAggregator(50, 50)
    /\ calls = << >>
    /\ MatchVarsIdle

AddResultsCall ==
    /\ pc = "a_ready"
    /\ Len(calls) < MaxCalls
    /\ \E file \in AggFiles, matches \in SeqsUpTo(MatchPool, MaxMatches) :
         /\ aggregator' = add_results(aggregator, file.path, matches,
                                      file.page_count)
         /\ calls' = Append(calls, Call(Len(calls) + 1, file.path, matches,
                                        file.page_count, file.page_count))
    /\ view' = Observe(view, aggregator')
    /\ UNCHANGED << pc, m_text, m_terms, m_before, m_after, m_out,
                    results_file, saved_calls, summary_file, args, source, directory,
                    term_list, files_to_process, idx, pending, opened, failed,
                    loaded, scanned, interrupted, exit_code >>

SaveResultsCall ==
    /\ pc = "a_ready"
    /\ results_file' = ResultsDocument(aggregator)
    /\ saved_calls' = Len(calls)
    /\ UNCHANGED << pc, m_text, m_terms, m_before, m_after, m_out, aggregator,
                    calls, summary_file, args, source, directory,
                    term_list, files_to_process, idx, pending, opened, failed,
                    loaded, scanned, interrupted, exit_code, view >>

NextAgg == AddResultsCall \/ SaveResultsCall

SpecAgg == InitAgg /\ [][NextAgg]_vars

(***************************************************************************)
(* Specification SpecRead: any sequence of add_results calls and reads     *)
(* (get_matches_by_term, get_results_by_file, get_results_by_term) on one  *)
(* aggregator.  view keeps the value the last read returned, the number of *)
(* add_results calls made before it (at) and the aggregator before and     *)
(* after the read                                                          *)
(***************************************************************************)
InitRead == InitAgg

ReadFrame ==
    UNCHANGED << pc, m_text, m_terms, m_before, m_after, m_out, calls,
                 results_file, saved_calls, summary_file, args, source, directory,
                 term_list, files_to_process, idx, pending, opened, failed,
                 loaded, scanned, interrupted, exit_code >>

GetMatchesByTermCall ==
    /\ pc = "a_ready"
    /\ LET r == get_matches_by_term(aggregator) IN
         view' = [ kind |-> "counts", shared |-> r.shared, items |-> r.items,
                   at |-> Len(calls), before |-> aggregator, after |-> aggregator ]
    /\ UNCHANGED aggregator
    /\ ReadFrame

GetResultsByFileCall ==
    /\ pc = "a_ready"
    /\ LET r == get_results_by_file(aggregator) IN
         /\ aggregator' = r.self
         /\ view' = [ kind |-> "by_file", shared |-> FALSE, items |-> r.value,
                      at |-> Len(calls), before |-> aggregator, after |-> r.self ]
    /\ ReadFrame

GetResultsByTermCall ==
    /\ pc = "a_ready"
    /\ LET r == get_results_by_term(aggregator) IN
         /\ aggregator' = r.self
         /\ view' = [ kind |-> "by_term", shared |-> FALSE, items |-> r.value,
                      at |-> Len(calls), before |-> aggregator, after |-> r.self ]
    /\ ReadFrame

NextRead ==
    \/ AddResultsCall
    \/ GetMatchesByTermCall
    \/ GetResultsByFileCall
    \/ GetResultsByTermCall

SpecRead == InitRead /\ [][NextRead]_vars

(***************************************************************************)
(* Specification SpecLoad: one call of load_term_list on a term source     *)
(***************************************************************************)
JsonDict(items) == [kind |-> "dict", items |-> items]
JsonScalar == [kind |-> "scalar", items |-> << >>]
Field(key, value) == [key |-> key, value |-> value]

K_x == << "x" >>
K_y == << "y" >>

\* the elements a JSON array of the specification is made of
RecordPool ==
    { JsonDict(<< Field(K_name, T1), Field(K_pattern, P_a) >>),
      JsonDict(<< Field(K_term, T2), Field(K_regex, P_aplus) >>),
      JsonDict(<< Field(K_regex, P_a), Field(K_name, T1), Field(K_term, T2) >>),
      JsonDict(<< Field(K_term, T2), Field(K_regex, P_a),
                  Field(K_pattern, P_aplus), Field(K_name, T1) >>),
      JsonDict(<< Field(K_x, T2), Field(K_y, P_empty) >>),
      JsonDict(<< Field(K_name, T1), Field(K_y, P_aplus), Field(K_x, T2) >>),
      JsonDict(<< Field(K_name, T1) >>),
      JsonDict(<< >>),
      JsonScalar,
      JsonDict(<< Field(K_name, Num), Field(K_pattern, P_a) >>),
      JsonDict(<< Field(K_name, JList), Field(K_pattern, P_a) >>) }

\* the members of a JSON object of the specification: keys are strings, the
\* empty one included, values any JSON scalar
MemberKeys == { << >>, << "T", "1" >>, << "T", "2" >> }
MemberValues == { P_a, Num }
JsonObjects ==
    { JsonDict(items) :
        items \in { d \in SeqsUpTo([key : MemberKeys, value : MemberValues],
                                   MaxEntries) :
                      \A i, j \in 1..Len(d) : i # j => d[i].key # d[j].key } }

JsonArrays ==
    { [kind |-> "list", items |-> items] : items \in SeqsUpTo(RecordPool, MaxEntries) }

\* the rows of a csv file of the specification
RowPool ==
    { << << "T", "1" >>, << "a" >> >>,
      << << " ", "T", "1", " " >>, << "a", "+", " " >> >>,
      << << "T", "2" >> >>,
      << << >>, << "a" >> >>,
      << << "T", "2" >>, << " " >> >>,
      << K_name, K_pattern >> }

LoadSources ==
    { JsonSource(data) : data \in JsonObjects \cup JsonArrays \cup {JsonScalar} }
    \cup { [exists |-> TRUE, suffix |-> Suffix_csv, data |-> JsonScalar,
            rows |-> rows, has_header |-> h] :
             rows \in SeqsUpTo(RowPool, MaxEntries), h \in BOOLEAN }
    \cup { [exists |-> e, suffix |-> << ".", "t", "x", "t" >>, data |-> JsonScalar,
            rows |-> << >>, has_header |-> FALSE] : e \in BOOLEAN }

InitLoad ==
    /\ pc = "l_call"
    /\ m_text = << >> /\ m_terms = << >> /\ m_before = 0 /\ m_after = 0
    /\ m_out = NoOutcome
    /\ aggregator = ResultAggregator(0, 0)
    /\ calls = << >>
    /\ results_file = NoFile /\ summary_file = NoFile /\ saved_calls = 0
    /\ args = NoArgs
    /\ source \in LoadSources
    /\ directory = {}
    /\ term_list = << >> /\ files_to_process = << >> /\ idx = 0
    /\ pending = << >> /\ opened = << >> /\ failed = {}
    /\ loaded = FALSE /\ scanned = FALSE
    /\ interrupted = NoInterrupt /\ exit_code = NotExited
    /\ view = NoView

\* term_list = load_term_list(path)
LoadCall ==
    /\ pc = "l_call"
    /\ LET r == load_term_list(source) IN
       /\ term_list' = r.terms
       /\ loaded' = (r.raised = "none")
       /\ pc' = IF r.raised = "none" THEN "l_returned" ELSE "l_raised"
    /\ UNCHANGED << m_text, m_terms, m_before, m_after, m_out, aggregator, calls,
                    results_file, saved_calls, summary_file, args, source,
                    directory, files_to_process, idx, pending, opened, failed,
                    scanned, interrupted, exit_code, view >>

NextLoad == LoadCall

SpecLoad == InitLoad /\ [][NextLoad]_vars

(***************************************************************************)
(* Specification Spec: one run of main()                                   *)
(***************************************************************************)
Init ==
    /\ pc = "parse_args"
    /\ m_text = << >> /\ m_terms = << >> /\ m_before = 0 /\ m_after = 0
    /\ m_out = NoOutcome
    /\ aggregator = ResultAggregator(0, 0)
    /\ calls = << >>
    /\ results_file = NoFile /\ summary_file = NoFile /\ saved_calls = 0
    /\ args \in RunArgs
    /\ source \in RunSources
    /\ directory = RunDirectory
    /\ term_list = << >> /\ files_to_process = << >> /\ idx = 0
    /\ pending = << >> /\ opened = << >> /\ failed = {}
    /\ loaded = FALSE /\ scanned = FALSE
    /\ interrupted = NoInterrupt /\ exit_code = NotExited
    /\ view = NoView

\* the process ends with the given status
Exit(status) == pc' = "done" /\ exit_code' = status

\* parse_arguments: parser.error exits with the usage status
ParseArgs ==
    /\ pc = "parse_args"
    /\ IF args.valid
       THEN pc' = "load_terms" /\ UNCHANGED exit_code
       ELSE Exit(main_exit_status("SystemExit", EXIT_USAGE))
    /\ UNCHANGED << m_text, m_terms, m_before, m_after, m_out, aggregator, calls,
                    results_file, saved_calls, summary_file, args, source, directory,
                    term_list, files_to_process, idx, pending, opened, failed,
                    loaded, scanned, interrupted, view >>

\* term_list = load_term_list(args.term_list_path)
LoadTerms ==
    /\ pc = "load_terms"
    /\ LET r == load_term_list(source) IN
       IF r.raised = "none"
       THEN /\ term_list' = r.terms
            /\ loaded' = TRUE
            /\ pc' = "check_terms"
            /\ UNCHANGED exit_code
       ELSE /\ Exit(main_exit_status(r.raised, 0))
            /\ UNCHANGED << term_list, loaded >>
    /\ UNCHANGED << m_text, m_terms, m_before, m_after, m_out, aggregator, calls,
                    results_file, saved_calls, summary_file, args, source, directory,
                    files_to_process, idx, pending, opened, failed,
                    scanned, interrupted, view >>

\* "if not term_list: sys.exit(1)"
CheckTerms ==
    /\ pc = "check_terms"
    /\ IF NoTermsLoaded(term_list)
       THEN Exit(main_exit_status("SystemExit", 1))
       ELSE pc' = "scan" /\ UNCHANGED exit_code
    /\ UNCHANGED << m_text, m_terms, m_before, m_after, m_out, aggregator, calls,
                    results_file, saved_calls, summary_file, args, source, directory,
                    term_list, files_to_process, idx, pending, opened, failed,
                    loaded, scanned, interrupted, view >>

\* the aggregator is constructed and the directory scanned
Scan ==
    /\ pc = "scan"
    /\ aggregator' = ResultAggregator(args.context_before, args.context_after)
    /\ files_to_process' =
           scan_directory(directory, args.file_extensions, args.recursive)
    /\ scanned' = TRUE
    /\ idx' = 1
    /\ pc' = "loop"
    /\ UNCHANGED << m_text, m_terms, m_before, m_after, m_out, calls,
                    results_file, saved_calls, summary_file, args, source, directory,
                    term_list, pending, opened, failed, loaded,
                    interrupted, exit_code, view >>

\* exc is raised inside the try block of the loop body for file idx: the
\* per-file handler journals it and the loop goes on, or it leaves the loop
RaiseInLoop(exc) ==
    IF PerFileCatches(exc)
    THEN /\ failed' = failed \cup {idx}
         /\ idx' = idx + 1
         /\ pc' = "loop"
         /\ UNCHANGED exit_code
    ELSE /\ Exit(main_exit_status(exc, 0))
         /\ UNCHANGED << failed, idx >>

\* results = process_pdf_file(file_path, term_list, before, after)
ProcessFile ==
    /\ pc = "loop"
    /\ idx <= Len(files_to_process)
    /\ \E content \in FileContents :
         LET r == process_pdf_file(content, term_list,
                                   args.context_before, args.context_after)
         IN /\ opened' = Append(opened, [path |-> files_to_process[idx],
                                         pages |-> Len(content.pages),
                                         raised |-> r.raised])
            /\ IF r.raised = "none"
               THEN /\ pending' = r.matches
                    /\ pc' = "add"
                    /\ UNCHANGED << failed, idx, exit_code >>
               ELSE /\ RaiseInLoop(r.raised)
                    /\ UNCHANGED pending
    /\ UNCHANGED << m_text, m_terms, m_before, m_after, m_out, aggregator, calls,
                    results_file, saved_calls, summary_file, args, source, directory,
                    term_list, files_to_process, loaded, scanned, interrupted, view >>

\* aggregator.add_results(file_path, results)
AddResults ==
    /\ pc = "add"
    /\ aggregator' = add_results(aggregator, files_to_process[idx], pending, 0)
    /\ calls' = Append(calls, Call(idx, files_to_process[idx], pending, 0,
                                   opened[Len(opened)].pages))
    /\ pending' = << >>
    /\ idx' = idx + 1
    /\ pc' = "loop"
    /\ UNCHANGED << m_text, m_terms, m_before, m_after, m_out,
                    results_file, saved_calls, summary_file, args, source, directory,
                    term_list, files_to_process, opened, failed, loaded,
                    scanned, interrupted, exit_code, view >>

\* the loop has run over every file
LoopEnd ==
    /\ pc = "loop"
    /\ idx > Len(files_to_process)
    /\ pc' = "save_results"
    /\ UNCHANGED << m_text, m_terms, m_before, m_after, m_out, aggregator, calls,
                    results_file, saved_calls, summary_file, args, source, directory,
                    term_list, files_to_process, idx, pending, opened, failed,
                    loaded, scanned, interrupted, exit_code, view >>

\* output folder created and aggregator.save_results(results_file); the
\* write can fail with OSError
SaveResults ==
    /\ pc = "save_results"
    /\ \/ /\ results_file' = ResultsDocument(aggregator)
          /\ saved_calls' = Len(calls)
          /\ IF args.summary_report
             THEN pc' = "save_summary" /\ UNCHANGED exit_code
             ELSE Exit(EXIT_SUCCESS)
       \/ /\ Exit(main_exit_status("OSError", 0))
          /\ UNCHANGED << results_file, saved_calls >>
    /\ UNCHANGED << m_text, m_terms, m_before, m_after, m_out, aggregator, calls,
                    summary_file, args, source, directory,
                    term_list, files_to_process, idx, pending, opened, failed,
                    loaded, scanned, interrupted, view >>

\* aggregator.save_summary(summary_file, ..., files_scanned, term_list)
SaveSummary ==
    /\ pc = "save_summary"
    /\ \/ /\ summary_file' = SummaryDocument(aggregator, Len(files_to_process),
                                             term_list)
          /\ Exit(EXIT_SUCCESS)
       \/ /\ Exit(main_exit_status("OSError", 0))
          /\ UNCHANGED summary_file
    /\ UNCHANGED << m_text, m_terms, m_before, m_after, m_out, aggregator, calls,
                    results_file, saved_calls, args, source, directory,
                    term_list, files_to_process, idx, pending, opened, failed,
                    loaded, scanned, interrupted, view >>

\* the user interrupts the process: KeyboardInterrupt is raised at the
\* current position, inside the per-file try block while a file is in work
Interrupt ==
    /\ pc \in {"parse_args", "load_terms", "check_terms", "scan", "loop", "add",
               "save_results", "save_summary"}
    /\ interrupted' = IF interrupted = NoInterrupt THEN Len(opened) ELSE interrupted
    /\ IF pc = "add" \/ (pc = "loop" /\ idx <= Len(files_to_process))
       THEN RaiseInLoop("KeyboardInterrupt")
       ELSE /\ Exit(main_exit_status("KeyboardInterrupt", 0))
            /\ UNCHANGED << failed, idx >>
    /\ pending' = << >>
    /\ UNCHANGED << m_text, m_terms, m_before, m_after, m_out, aggregator, calls,
                    results_file, saved_calls, summary_file, args, source, directory,
                    term_list, files_to_process, opened, loaded, scanned, view >>

Next ==
    \/ ParseArgs
    \/ LoadTerms
    \/ CheckTerms
    \/ Scan
    \/ ProcessFile
    \/ AddResults
    \/ LoopEnd
    \/ SaveResults
    \/ SaveSummary
    \/ Interrupt

Spec == Init /\ [][Next]_vars

(***************************************************************************)
(* Properties                                                              *)
(***************************************************************************)
\* the indexes of the opened files whose processing raised an exception
RaisedFiles == { n \in 1..Len(opened) : IsException(opened[n].raised)
                                        /\ opened[n].raised # "none" }

\* the indexes of the files whose results were added to the aggregator
AddedFiles == { calls[n].idx : n \in 1..Len(calls) }

\* C1: when the processing of a file raises an exception the run is not
\* aborted: the file adds nothing to the aggregator, every later file of the
\* scanned list is still processed, and a run that ends without an interrupt
\* has written the results document unless the write itself failed after
\* the last file.
C1_FileErrorDoesNotAbort ==
    /\ RaisedFiles \cap AddedFiles = {}
    /\ (RaisedFiles # {} /\ pc = "done" /\ interrupted = NoInterrupt)
         => /\ Len(opened) = Len(files_to_process)
            /\ \A n \in 1..Len(files_to_process) :
                 /\ opened[n].path = files_to_process[n]
                 /\ n \in RaisedFiles \cup AddedFiles
            /\ \/ exit_code = EXIT_SUCCESS /\ results_file.written
               \/ exit_code = EXIT_FAILURE /\ idx = Len(files_to_process) + 1

C1_Witness ==
    /\ pc = "done" /\ exit_code = EXIT_SUCCESS
    /\ results_file.written /\ Len(results_file.matches) > 0
    /\ \E i \in RaisedFiles, j \in AddedFiles : i < j

\* the listing a sequence of add_results calls must leave behind
ListingOf(cs) ==
    Concat([ n \in 1..Len(cs) |->
               [ k \in 1..Len(cs[n].matches) |->
                   ResultOf(cs[n].file_path, cs[n].matches[k]) ] ])

\* C2: the result listing is the concatenation of the matches lists of the
\* add_results calls in call order, each in its given order, and every
\* save_results writes exactly that listing.
C2_ListingInCallOrder ==
    /\ aggregator.results = ListingOf(calls)
    /\ results_file.written
         => results_file.matches = ListingOf(SubSeq(calls, 1, saved_calls))

C2_Witness ==
    /\ Len(calls) = 2
    /\ results_file.written /\ saved_calls = 2
    /\ results_file.matches = aggregator.results
    /\ \E i, j \in 1..Len(aggregator.results) :
         /\ i < j
         /\ aggregator.results[i] = aggregator.results[j]
    /\ \E i \in 1..(Len(aggregator.results) - 1) :
         aggregator.results[i].position > aggregator.results[i + 1].position

\* C3: the files-with-matches counter equals the number of add_results
\* calls made with a non-empty matches list, however many matches each held.
C3_FileCountPerCall ==
    aggregator.file_count
      = Cardinality({ n \in 1..Len(calls) : calls[n].matches # << >> })

C3_Witness ==
    /\ Len(calls) = 2
    /\ aggregator.file_count = 1
    /\ \E n \in 1..2 : Len(calls[n].matches) = 2
    /\ \E n \in 1..2 : calls[n].matches = << >>

\* the number of non-overlapping matches of one term's pattern in a text
\* (a pattern that does not compile matches nothing)
TermCount(text, pattern) ==
    LET regex == re_compile(pattern) IN
    IF regex.err = "none" THEN Len(finditer(regex.atoms, text, 0)) ELSE 0

TotalTermCount(text, terms) ==
    SumSeq([ k \in 1..Len(terms) |-> TermCount(text, terms[k].pattern) ])

\* C4: total_matches() is the sum of the lengths of all matches lists passed
\* to add_results; after the matches of one scanned text have been added once
\* it is the sum over the terms of the term's non-overlapping match count.
C4_TotalMatches ==
    /\ get_total_matches(aggregator)
         = SumSeq([ n \in 1..Len(calls) |-> Len(calls[n].matches) ])
    /\ Len(calls) = 1
         => get_total_matches(aggregator) = TotalTermCount(m_text, m_terms)

C4_Witness ==
    /\ Len(calls) = 1
    /\ Len(m_terms) = 2
    /\ TermCount(m_text, m_terms[1].pattern) = 2
    /\ TermCount(m_text, m_terms[2].pattern) = 1
    /\ get_total_matches(aggregator) = 3

\* C5: the summary reports as pages_processed the sum of the page counts of
\* the files whose results were added to the aggregator.
C5_PagesProcessed ==
    summary_file.written
      => summary_file.job_summary.pages_processed
           = SumSeq([ n \in 1..Len(calls) |-> calls[n].doc_pages ])

\* position of a term name in the TermSet
TermIndex(terms, name) == CHOOSE k \in 1..Len(terms) : terms[k].name = name

\* C6: the matcher's output lists the terms' matches term by term in TermSet
\* order, each term's matches left to right, and is as long as the sum of
\* the per-term match counts.
C6_TermOrderThenScanOrder ==
    (pc = "m_returned")
      => /\ Len(m_out.matches) = TotalTermCount(m_text, m_terms)
         /\ \A k \in 1..Len(m_terms) :
              Len(SelectSeq(m_out.matches,
                            LAMBDA m : m.term_name = m_terms[k].name))
                = TermCount(m_text, m_terms[k].pattern)
         /\ \A i, j \in 1..Len(m_out.matches) :
              i < j =>
                LET ti == TermIndex(m_terms, m_out.matches[i].term_name)
                    tj == TermIndex(m_terms, m_out.matches[j].term_name)
                IN \/ ti < tj
                   \/ ti = tj /\ m_out.matches[i].position
                                   < m_out.matches[j].position

C6_Witness ==
    /\ pc = "m_returned"
    /\ Len(m_terms) = 2
    /\ \E i, j \in 1..Len(m_out.matches) :
         /\ i < j
         /\ m_out.matches[i].term_name = m_terms[1].name
         /\ m_out.matches[j].term_name = m_terms[2].name
         /\ m_out.matches[j].position < m_out.matches[i].position

\* end offset of a match record
MatchEnd(m) == m.position + Len(m.matched_text)

\* C7: for every match, context_before is the text from max(0, start - b) to
\* start and context_after the text from end to min(len(text), end + a), so
\* neither is longer than its bound or reaches outside the text.
C7_ContextClamped ==
    (pc = "m_returned")
      => \A n \in 1..Len(m_out.matches) :
           LET m == m_out.matches[n]
               lo == IF m.position - m_before > 0 THEN m.position - m_before ELSE 0
               hi == IF MatchEnd(m) + m_after < Len(m_text)
                     THEN MatchEnd(m) + m_after ELSE Len(m_text)
           IN /\ m.context_before = SubSeq(m_text, lo + 1, m.position)
              /\ m.context_after = SubSeq(m_text, MatchEnd(m) + 1, hi)
              /\ Len(m.context_before) <= m_before
              /\ Len(m.context_after) <= m_after
              /\ m.matched_text = SubSeq(m_text, m.position + 1, MatchEnd(m))

C7_Witness ==
    /\ pc = "m_returned"
    /\ \E n \in 1..Len(m_out.matches) :
         LET m == m_out.matches[n] IN
         /\ m.position > 0 /\ m.position < m_before
         /\ Len(m.context_before) = m.position
    /\ \E n \in 1..Len(m_out.matches) :
         LET m == m_out.matches[n] IN
         /\ MatchEnd(m) < Len(m_text) /\ MatchEnd(m) + m_after > Len(m_text)
         /\ Len(m.context_after) = Len(m_text) - MatchEnd(m)
    /\ \E n \in 1..Len(m_out.matches) : m_out.matches[n].position = 0
    /\ \E n \in 1..Len(m_out.matches) : MatchEnd(m_out.matches[n]) = Len(m_text)

\* the TermSet without the terms whose pattern cannot be compiled
Compilable(terms) ==
    SelectSeq(terms, LAMBDA e : re_compile(e.pattern).err = "none")

\* C8: a term whose pattern cannot be compiled does not abort the matcher
\* call: the call returns, and returns what it would return were the
\* failing terms absent from the TermSet.
C8_BadPatternSkipped ==
    (pc # "m_call")
      => /\ m_out.raised = "none"
         /\ m_out.matches
              = search_text_for_patterns(m_text, Compilable(m_terms), 1,
                                         m_before, m_after).matches

\* C9: after a user interrupt no further file is opened or processed and
\* the process ends with the interrupted status, which is neither the
\* success nor the generic failure status.
C9_InterruptStops ==
    (interrupted # NoInterrupt)
      => /\ pc = "done"
         /\ exit_code = EXIT_INTERRUPTED
         /\ exit_code \notin {EXIT_SUCCESS, EXIT_FAILURE}
         /\ Len(opened) = interrupted
         /\ Len(calls) <= interrupted

C9_Witness ==
    /\ interrupted # NoInterrupt
    /\ interrupted >= 1
    /\ interrupted < Len(files_to_process)
    /\ exit_code = EXIT_INTERRUPTED

\* C10: a run whose loaded term set is empty never scans the directory,
\* processes no file and writes no output file, and unless interrupted it
\* ends with the failure status.
C10_EmptyTermSetFatal ==
    (loaded /\ term_list = << >>)
      => /\ ~scanned
         /\ opened = << >> /\ calls = << >>
         /\ ~results_file.written /\ ~summary_file.written
         /\ pc \in {"check_terms", "done"}
         /\ (pc = "done" /\ interrupted = NoInterrupt) => exit_code = EXIT_FAILURE

C10_Witness ==
    /\ loaded /\ term_list = << >>
    /\ pc = "done" /\ exit_code = EXIT_FAILURE /\ interrupted = NoInterrupt

\* C11: the list returned by the directory scan is sorted and holds no file
\* path twice, whatever the extensions and the recursive flag, so the run
\* opens each file at most once.
C11_ScanSortedNoDuplicates ==
    scanned
      => /\ \A i, j \in 1..Len(files_to_process) :
              i < j => /\ ~PathLess(files_to_process[j], files_to_process[i])
                       /\ files_to_process[i] # files_to_process[j]
         /\ \A i, j \in 1..Len(opened) :
              i < j => opened[i].path # opened[j].path

\* C12: every TermSet the loader returns maps names that are non-empty
\* strings to values that are pattern strings, holds no name twice, and for
\* a JSON object lists the members in document order.
C12_TermSetWellFormed ==
    (pc = "l_returned")
      => /\ \A n \in 1..Len(term_list) :
              /\ term_list[n].name.t = "str"
              /\ term_list[n].name.v # << >>
              /\ term_list[n].pattern.t = "str"
         /\ \A i, j \in 1..Len(term_list) :
              i # j => term_list[i].name # term_list[j].name
         /\ (LowerStr(source.suffix) = Suffix_json /\ source.data.kind = "dict")
              => /\ Len(term_list) = Len(source.data.items)
                 /\ \A n \in 1..Len(term_list) :
                      term_list[n].name.v = source.data.items[n].key

\* the fields of a record, and the value of a field
FieldsOf(item) == { item.items[n].key : n \in 1..Len(item.items) }
ValueOf(item, key) ==
    CHOOSE v \in { item.items[n].value : n \in 1..Len(item.items) } :
        \E n \in 1..Len(item.items) : item.items[n] = [key |-> key, value |-> v]

\* the shape of an array element: which fields give its term
ShapeOf(item) ==
    CASE item.kind # "dict" -> "skip"
      [] item.kind = "dict" /\ {K_name, K_pattern} \subseteq FieldsOf(item) -> "name"
      [] item.kind = "dict" /\ ~({K_name, K_pattern} \subseteq FieldsOf(item))
           /\ {K_term, K_regex} \subseteq FieldsOf(item) -> "term"
      [] item.kind = "dict" /\ ~({K_name, K_pattern} \subseteq FieldsOf(item))
           /\ ~({K_term, K_regex} \subseteq FieldsOf(item))
           /\ Len(item.items) >= 2 -> "first_two"
      [] OTHER -> "skip"

\* the name and the pattern the claim gives an array element of that shape
NameBy(item) ==
    CASE ShapeOf(item) = "name" -> ValueOf(item, K_name)
      [] ShapeOf(item) = "term" -> ValueOf(item, K_term)
      [] OTHER -> item.items[1].value
PatternBy(item) ==
    CASE ShapeOf(item) = "name" -> ValueOf(item, K_pattern)
      [] ShapeOf(item) = "term" -> ValueOf(item, K_regex)
      [] OTHER -> item.items[2].value

IsArraySource == LowerStr(source.suffix) = Suffix_json /\ source.data.kind = "list"

\* the positions of the array elements that yield a term
Yielding == { n \in 1..Len(source.data.items) : ShapeOf(source.data.items[n]) # "skip" }

\* C13: for a JSON array source each record yields its term from name/pattern,
\* else from term/regex, else from its first two fields, and a record of
\* neither shape with fewer than two fields adds nothing and raises nothing:
\* the TermSet holds exactly the yielded names, in the order of their first
\* record, each with the pattern of its last record; the load fails only on
\* a yielded name that cannot be a mapping key.
C13_RecordPrecedence ==
    IsArraySource
      => LET items == source.data.items
             FirstOf(name) == CHOOSE n \in Yielding :
                                /\ NameBy(items[n]) = name
                                /\ \A k \in Yielding : NameBy(items[k]) = name => n <= k
             LastOf(name) == CHOOSE n \in Yielding :
                               /\ NameBy(items[n]) = name
                               /\ \A k \in Yielding : NameBy(items[k]) = name => k <= n
         IN /\ pc = "l_raised"
                 => \E n \in Yielding : NameBy(items[n]).t = "list"
            /\ pc = "l_returned"
                 => /\ { term_list[k].name : k \in 1..Len(term_list) }
                         = { NameBy(items[n]) : n \in Yielding }
                    /\ Len(term_list) = Cardinality({ NameBy(items[n]) : n \in Yielding })
                    /\ \A k \in 1..Len(term_list) :
                         term_list[k].pattern
                           = PatternBy(items[LastOf(term_list[k].name)])
                    /\ \A k, l \in 1..Len(term_list) :
                         k < l => FirstOf(term_list[k].name) < FirstOf(term_list[l].name)

C13_Witness ==
    /\ IsArraySource /\ pc = "l_returned"
    /\ Len(source.data.items) = 3
    /\ \E n \in 1..3 : /\ ShapeOf(source.data.items[n]) = "term"
                       /\ K_name \in FieldsOf(source.data.items[n])
    /\ \E n \in 1..3 : /\ ShapeOf(source.data.items[n]) = "first_two"
                       /\ K_name \in FieldsOf(source.data.items[n])
    /\ \E n \in 1..3 : /\ ShapeOf(source.data.items[n]) = "skip"
                       /\ source.data.items[n].kind = "dict"
                       /\ Len(source.data.items[n].items) = 1
    /\ Len(term_list) = 2

(***************************************************************************)
(* Claims about the reads of the aggregator (SpecRead)                     *)
(***************************************************************************)
\* the number of records of a listing carrying term name t
CountOf(listing, t) ==
    Len(SelectSeq(listing, LAMBDA r : r.term_name = t))

\* items maps each term name of the listing, and no other, to the number of
\* records carrying it
CountsMatch(items, listing) ==
    /\ \A m, n \in 1..Len(items) : m # n => items[m].key # items[n].key
    /\ \A n \in 1..Len(items) :
         /\ items[n].count = CountOf(listing, items[n].key)
         /\ items[n].count > 0
    /\ \A i \in 1..Len(listing) :
         \E n \in 1..Len(items) : items[n].key = listing[i].term_name

\* C14: after any sequence of add_results calls get_matches_by_term maps each
\* term name to the number of listing records carrying it, the counts sum to
\* get_total_matches, and a mapping returned earlier still holds the counts
\* of the listing as it was when it was returned
C14_CountsByTermSnapshot ==
    /\ LET items == get_matches_by_term(aggregator).items IN
         /\ CountsMatch(items, aggregator.results)
         /\ SumSeq([ n \in 1..Len(items) |-> items[n].count ])
              = get_total_matches(aggregator)
    /\ view.kind = "counts"
         => CountsMatch(view.items, ListingOf(SubSeq(calls, 1, view.at)))

\* a mapping was returned, and add_results calls made since have changed the
\* counts of the aggregator
C14_Witness ==
    /\ view.kind = "counts"
    /\ view.items # << >>
    /\ view.at < Len(calls)
    /\ view.items # aggregator.match_counts
    /\ Len(aggregator.match_counts) = 2

\* the field a grouping read groups by
GroupField == IF view.kind = "by_file" THEN "file_name" ELSE "term_name"

\* C15: get_results_by_file and get_results_by_term leave the aggregator as
\* it was (listing and counters), every record of the listing is in exactly
\* one group, the one of its key, as it is in the listing, and the records
\* of a group are in listing order
C15_GroupingIsPureRead ==
    view.kind \in {"by_file", "by_term"}
      => /\ view.after = view.before
         /\ view.before.results = ListingOf(SubSeq(calls, 1, view.at))
         /\ \A m, n \in 1..Len(view.items) :
              m # n => view.items[m].key # view.items[n].key
         /\ \A n \in 1..Len(view.items) :
              /\ view.items[n].items # << >>
              /\ view.items[n].items =
                     SelectSeq(view.before.results,
                               LAMBDA r : r[GroupField] = view.items[n].key)
         /\ \A i \in 1..Len(view.before.results) :
              \E n \in 1..Len(view.items) :
                  view.items[n].key = view.before.results[i][GroupField]

\* a grouping by file of a listing of two files, one group holding two
\* records of different terms
C15_Witness ==
    /\ view.kind = "by_file"
    /\ Len(view.items) = 2
    /\ \E n \in 1..2 :
         /\ Len(view.items[n].items) = 2
         /\ view.items[n].items[1].term_name # view.items[n].items[2].term_name
    /\ Len(aggregator.results) >= 3

====
